---------------------------- MODULE Spec2Model ----------------------------
(* A model of controllers/cmd/start.go of argo-events: the bootstrap of  *)
(* the controller manager (Start), the resolver of the leader-election   *)
(* durations (lookupEnvDurationOr), and the watches Start registers on   *)
(* the three controllers (EventBus, EventSource, Sensor).                *)
(*                                                                       *)
(* Durations are counted in milliseconds, strings of the environment    *)
(* are sequences of one-character strings, a *time.Duration is a         *)
(* sequence of at most one duration (<<>> is the nil pointer).           *)
EXTENDS Integers, Sequences, FiniteSets, TLC

VARIABLES
    env,          \* the process environment: variable name -> (value, found)
    eventsOpts,   \* the ArgoEventsControllerOpts passed to Start
    pc,           \* the statement of Start the process is at
    exitCode,     \* "none" while the process lives, else its exit code
    fatalMsg,     \* the Fatal log call that ended the process: its message,
                  \* and the key or the error logged with it
    imageName,    \* local imageName of Start
    opts,         \* local opts of Start (ctrl.Options)
    mgr,          \* what Start has put into the manager
    controllers,  \* the controllers created on the manager
    watches,      \* the watches registered, each on one controller
    ctx,          \* the context of signals.SetupSignalHandler()
    leading,      \* the manager holds the leader lease
    queue,        \* the work queue of each controller
    event,        \* the event the cache delivered last
    adds,         \* the requests that event's handlers added, per controller
    resolved      \* the lookupEnvDurationOr call under test and its result

inputVars == <<env, eventsOpts>>
bootVars  == <<pc, exitCode, fatalMsg, imageName, opts, mgr, controllers, watches>>
runVars   == <<ctx, leading, queue, event, adds>>

vars == <<inputVars, bootVars, runVars, resolved>>

-----------------------------------------------------------------------------
(* Bounds of the model.                                                  *)

\* longest value of an environment variable handed to the resolver
MaxLen == 3

\* the characters environment values are made of
Alphabet == {"-", "1", "5", "s", "m", "x"}

RECURSIVE StringsUpTo(_)
StringsUpTo(n) ==
    IF n = 0 THEN {<<>>}
    ELSE LET shorter == StringsUpTo(n - 1)
         IN  shorter \cup {Append(s, c) : s \in {t \in shorter : Len(t) = n - 1}, c \in Alphabet}

-----------------------------------------------------------------------------
(* The process environment: os.LookupEnv returns (value, found).         *)

imageEnvVar == "ARGO_EVENTS_IMAGE"

LeaseDurationKey == "LEADER_ELECTION_LEASE_DURATION"
RenewDeadlineKey == "LEADER_ELECTION_RENEW_DEADLINE"
RetryPeriodKey   == "LEADER_ELECTION_RETRY_PERIOD"

DurationKeys == {LeaseDurationKey, RenewDeadlineKey, RetryPeriodKey}
EnvKeys      == {imageEnvVar} \cup DurationKeys

Unset    == [found |-> FALSE, v |-> <<>>]
Set(str) == [found |-> TRUE, v |-> str]

LookupEnv(key) == env[key]

-----------------------------------------------------------------------------
(* time.ParseDuration, on strings of digits and of the letters of        *)
(* Alphabet. No string of the model holds a '.', so leadingFraction is   *)
(* left out, and none is long enough to overflow an int64 of             *)
(* nanoseconds.                                                          *)

Second == 1000
Minute == 60 * Second

Digits == {"0", "1", "2", "3", "4", "5", "6", "7", "8", "9"}

DigitVal(c) ==
    CASE c = "0" -> 0 [] c = "1" -> 1 [] c = "2" -> 2 [] c = "3" -> 3
      [] c = "4" -> 4 [] c = "5" -> 5 [] c = "6" -> 6 [] c = "7" -> 7
      [] c = "8" -> 8 [] c = "9" -> 9

Drop(s, n) == SubSeq(s, n + 1, Len(s))

\* leadingInt: the value of the leading digits of s and the rest of s
RECURSIVE leadingInt(_, _)
leadingInt(s, x) ==
    IF s # <<>> /\ Head(s) \in Digits
    THEN leadingInt(Tail(s), x * 10 + DigitVal(Head(s)))
    ELSE [v |-> x, rem |-> s]

\* the length of the unit at the head of s: everything up to a digit
RECURSIVE unitLen(_)
unitLen(s) ==
    IF s = <<>> \/ Head(s) \in Digits THEN 0
    ELSE 1 + unitLen(Tail(s))

\* unitMap of package time, for the units the alphabet can spell; 0: no unit
unitMap(u) ==
    CASE u = <<"m", "s">> -> 1
      [] u = <<"s">>      -> Second
      [] u = <<"m">>      -> Minute
      [] OTHER            -> 0

ParseError == [err |-> TRUE, d |-> 0]

\* the loop of ParseDuration over the groups [0-9]+[a-z]+ of s
RECURSIVE parseGroups(_, _)
parseGroups(s, d) ==
    IF s = <<>> THEN [err |-> FALSE, d |-> d]
    ELSE IF Head(s) \notin Digits THEN ParseError
    ELSE LET li == leadingInt(s, 0)
             n  == unitLen(li.rem)
             u  == SubSeq(li.rem, 1, n)
         IN  IF n = 0 THEN ParseError                     \* missing unit
             ELSE IF unitMap(u) = 0 THEN ParseError       \* unknown unit
             ELSE parseGroups(Drop(li.rem, n), d + li.v * unitMap(u))

ParseDuration(str) ==
    LET signed == str # <<>> /\ Head(str) \in {"-", "+"}
        neg    == signed /\ Head(str) = "-"
        s      == IF signed THEN Tail(str) ELSE str
    IN  IF s = <<"0">> THEN [err |-> FALSE, d |-> 0]
        ELSE IF s = <<>> THEN ParseError
        ELSE LET r == parseGroups(s, 0)
             IN  IF r.err THEN ParseError
                 ELSE [err |-> FALSE, d |-> IF neg THEN 0 - r.d ELSE r.d]

-----------------------------------------------------------------------------
(* lookupEnvDurationOr(key, o): the value of the variable key parsed as  *)
(* a duration; o when the variable is not set or is empty. A value that  *)
(* does not parse is logged with Fatalw, which ends the process          *)
(* (os.Exit(1)): fatal is TRUE and nothing is returned.                  *)

\* lookupEnvDurationOr without the test for the empty string
lookupEnvDurationOr_EmptyParsed(key, o) ==
    LET l == LookupEnv(key)
    IN  IF l.found
        THEN LET p == ParseDuration(l.v)
             IN  IF p.err THEN [fatal |-> TRUE,  d |-> <<>>]
                 ELSE          [fatal |-> FALSE, d |-> <<p.d>>]
        ELSE [fatal |-> FALSE, d |-> <<o>>]

\* lookupEnvDurationOr returning the fallback for a value that parses
lookupEnvDurationOr_IgnoreValue(key, o) ==
    LET l == LookupEnv(key)
    IN  IF l.found /\ l.v # <<>> /\ ParseDuration(l.v).err
        THEN [fatal |-> TRUE,  d |-> <<>>]
        ELSE [fatal |-> FALSE, d |-> <<o>>]

lookupEnvDurationOr(key, o) ==
    LET l == LookupEnv(key)
    IN  IF l.found /\ l.v # <<>>
        THEN LET p == ParseDuration(l.v)
             IN  IF p.err THEN [fatal |-> TRUE,  d |-> <<>>]
                 ELSE          [fatal |-> FALSE, d |-> <<p.d>>]
        ELSE [fatal |-> FALSE, d |-> <<o>>]

\* the fallbacks Start passes for the three leader-election durations
Fallback(key) ==
    CASE key = LeaseDurationKey -> 15 * Second
      [] key = RenewDeadlineKey -> 10 * Second
      [] key = RetryPeriodKey   -> 5 * Second

-----------------------------------------------------------------------------
(* What Start wires: three controllers, and nine watches on them.        *)

EventBus    == "EventBus"
EventSource == "EventSource"
Sensor      == "Sensor"
ConfigMap   == "ConfigMap"
StatefulSet == "StatefulSet"
Service     == "Service"
Deployment  == "Deployment"

PrimaryKinds     == {EventBus, EventSource, Sensor}
SubordinateKinds == {ConfigMap, StatefulSet, Service, Deployment}
Kinds            == PrimaryKinds \cup SubordinateKinds

\* eventbus.ControllerName, eventsource.ControllerName, sensor.ControllerName
EventBusController    == "eventbus-controller"
EventSourceController == "eventsource-controller"
SensorController      == "sensor-controller"

ControllerNames == {EventBusController, EventSourceController, SensorController}

GenerationChangedPredicate == "GenerationChangedPredicate"
LabelChangedPredicate      == "LabelChangedPredicate"

EnqueueRequestForObject == "EnqueueRequestForObject"
EnqueueRequestForOwner  == "EnqueueRequestForOwner"

\* a primary watch whose predicate lacks LabelChangedPredicate
PrimaryWatch_GenerationOnly(c, k) ==
    [ctrl |-> c, kind |-> k, handler |-> "EnqueueRequestForObject", owner |-> k,
     anyOf |-> {"GenerationChangedPredicate"}]

\* a Watch call with &handler.EnqueueRequestForObject{} and
\* predicate.Or(GenerationChangedPredicate{}, LabelChangedPredicate{})
PrimaryWatch(c, k) ==
    [ctrl |-> c, kind |-> k, handler |-> EnqueueRequestForObject, owner |-> k,
     anyOf |-> {GenerationChangedPredicate, LabelChangedPredicate}]

\* an owner watch whose predicate passes label changes too
OwnerWatch_LabelsToo(c, k, o) ==
    [ctrl |-> c, kind |-> k, handler |-> "EnqueueRequestForOwner", owner |-> o,
     anyOf |-> {"GenerationChangedPredicate", "LabelChangedPredicate"}]

\* a Watch call with handler.EnqueueRequestForOwner(.., &o{},
\* handler.OnlyControllerOwner()) and predicate.GenerationChangedPredicate{}
OwnerWatch(c, k, o) ==
    [ctrl |-> c, kind |-> k, handler |-> EnqueueRequestForOwner, owner |-> o,
     anyOf |-> {GenerationChangedPredicate}]

\* a Start that creates the EventBus controller before it adds the probes
\* and the schemes
StartSteps_ControllerFirst ==
    << "LoadConfig", "ValidateConfig", "LookupImage", "Options",
       "LeaseDuration", "RenewDeadline", "RetryPeriod",
       "GetConfigOrDie", "NewManager", "NewKubeClient",
       "NewEventBusController",
       "AddReadyzCheck", "AddHealthzCheck",
       "AddEventBusScheme", "AddEventSourceScheme", "AddSensorScheme",
       "WatchEventBus", "WatchEventBusConfigMaps",
       "WatchEventBusStatefulSets", "WatchEventBusServices",
       "NewEventSourceController", "WatchEventSources",
       "WatchEventSourceDeployments", "WatchEventSourceServices",
       "NewSensorController", "WatchSensors", "WatchSensorDeployments",
       "MgrStart" >>

\* the statements of Start that can end the process, in program order
StartSteps ==
    << "LoadConfig", "ValidateConfig", "LookupImage", "Options",
       "LeaseDuration", "RenewDeadline", "RetryPeriod",
       "GetConfigOrDie", "NewManager", "NewKubeClient",
       "AddReadyzCheck", "AddHealthzCheck",
       "AddEventBusScheme", "AddEventSourceScheme", "AddSensorScheme",
       "NewEventBusController", "WatchEventBus", "WatchEventBusConfigMaps",
       "WatchEventBusStatefulSets", "WatchEventBusServices",
       "NewEventSourceController", "WatchEventSources",
       "WatchEventSourceDeployments", "WatchEventSourceServices",
       "NewSensorController", "WatchSensors", "WatchSensorDeployments",
       "MgrStart" >>

StepIndex(l) == CHOOSE i \in 1..Len(StartSteps) : StartSteps[i] = l
After(l)     == StartSteps[StepIndex(l) + 1]

\* which duration each lookupEnvDurationOr statement resolves
DurationStepKey(l) ==
    CASE l = "LeaseDuration" -> LeaseDurationKey
      [] l = "RenewDeadline" -> RenewDeadlineKey
      [] l = "RetryPeriod"   -> RetryPeriodKey

DurationSteps == {"LeaseDuration", "RenewDeadline", "RetryPeriod"}

\* the AddToScheme statements
SchemeStepKind(l) ==
    CASE l = "AddEventBusScheme"    -> EventBus
      [] l = "AddEventSourceScheme" -> EventSource
      [] l = "AddSensorScheme"      -> Sensor

SchemeSteps == {"AddEventBusScheme", "AddEventSourceScheme", "AddSensorScheme"}

\* the controller.New statements: the controller's name, and whether its
\* reconciler is built with imageName
ControllerStep(l) ==
    CASE l = "NewEventBusController"    -> [name |-> EventBusController,    withImage |-> FALSE]
      [] l = "NewEventSourceController" -> [name |-> EventSourceController, withImage |-> TRUE]
      [] l = "NewSensorController"      -> [name |-> SensorController,      withImage |-> TRUE]

ControllerSteps == {"NewEventBusController", "NewEventSourceController", "NewSensorController"}

\* the Watch statements
WatchStep(l) ==
    CASE l = "WatchEventBus"               -> PrimaryWatch(EventBusController, EventBus)
      [] l = "WatchEventBusConfigMaps"     -> OwnerWatch(EventBusController, ConfigMap, EventBus)
      [] l = "WatchEventBusStatefulSets"   -> OwnerWatch(EventBusController, StatefulSet, EventBus)
      [] l = "WatchEventBusServices"       -> OwnerWatch(EventBusController, Service, EventBus)
      [] l = "WatchEventSources"           -> PrimaryWatch(EventSourceController, EventSource)
      [] l = "WatchEventSourceDeployments" -> OwnerWatch(EventSourceController, Deployment, EventSource)
      [] l = "WatchEventSourceServices"    -> OwnerWatch(EventSourceController, Service, EventSource)
      [] l = "WatchSensors"                -> PrimaryWatch(SensorController, Sensor)
      [] l = "WatchSensorDeployments"      -> OwnerWatch(SensorController, Deployment, Sensor)

WatchSteps ==
    {"WatchEventBus", "WatchEventBusConfigMaps", "WatchEventBusStatefulSets",
     "WatchEventBusServices", "WatchEventSources", "WatchEventSourceDeployments",
     "WatchEventSourceServices", "WatchSensors", "WatchSensorDeployments"}

AllWatches == {WatchStep(l) : l \in WatchSteps}

\* the message Start logs when the statement fails
StepMessage(l) ==
    CASE l = "AddEventBusScheme"           -> "Unable to add scheme"
      [] l = "AddEventSourceScheme"        -> "Unable to add EventSource scheme"
      [] l = "AddSensorScheme"             -> "Unable to add Sensor scheme"
      [] l = "NewEventBusController"       -> "Unable to set up EventBus controller"
      [] l = "NewEventSourceController"    -> "Unable to set up EventSource controller"
      [] l = "NewSensorController"         -> "Unable to set up Sensor controller"
      [] l = "WatchEventBus"               -> "Unable to watch EventBus"
      [] l = "WatchEventBusConfigMaps"     -> "Unable to watch ConfigMaps"
      [] l = "WatchEventBusStatefulSets"   -> "Unable to watch StatefulSets"
      [] l = "WatchEventBusServices"       -> "Unable to watch Services"
      [] l = "WatchEventSources"           -> "Unable to watch EventSources"
      [] l = "WatchEventSourceDeployments" -> "Unable to watch Deployments"
      [] l = "WatchEventSourceServices"    -> "Unable to watch Services"
      [] l = "WatchSensors"                -> "Unable to watch Sensors"
      [] l = "WatchSensorDeployments"      -> "Unable to watch Deployments"

-----------------------------------------------------------------------------
(* The objects of the cluster and the events the manager's cache hands   *)
(* to the watches.                                                       *)

Namespaces == {"ns-a", "ns-b"}
Names      == {"a", "b"}

\* largest metadata.generation of an object before an update
MaxGeneration == 1

LabelSets == {{}, {"app"}}
Statuses  == {"Pending", "Running"}

\* metadata.ownerReferences, of which an object has at most one here
NoOwner   == [kind |-> "", name |-> "", controller |-> FALSE]
OwnerRefs == {NoOwner} \cup [kind : PrimaryKinds, name : Names, controller : BOOLEAN]

ObjectsOfGenerations(gs) ==
    [kind : Kinds, namespace : Namespaces, name : Names, generation : gs,
     labels : LabelSets, status : Statuses, owner : OwnerRefs]

NoObject ==
    [kind |-> "", namespace |-> "", name |-> "", generation |-> 0,
     labels |-> {}, status |-> "", owner |-> NoOwner]

\* the events of source.Kind: event.CreateEvent and event.DeleteEvent carry
\* one object (here as old and as new), event.UpdateEvent carries ObjectOld
\* and ObjectNew:
\* the same object before and after a write, which leaves the generation
\* or adds one to it
NoEvent == [type |-> "None", old |-> NoObject, new |-> NoObject]

ObjectEvent(t, o) == [type |-> t, old |-> o, new |-> o]

UpdateEvent(o, g, l, st, w) ==
    [type |-> "Update", old |-> o,
     new  |-> [o EXCEPT !.generation = g, !.labels = l, !.status = st, !.owner = w]]

\* reconcile.Request: a types.NamespacedName
Request(ns, n) == [namespace |-> ns, name |-> n]
Requests       == [namespace : Namespaces, name : Names]

-----------------------------------------------------------------------------
(* The predicates and handlers of controller-runtime that Start passes   *)
(* to Watch.                                                             *)

\* predicate.GenerationChangedPredicate: filters updates only
GenerationChanged(e) ==
    e.type = "Update" => e.old.generation # e.new.generation

\* predicate.LabelChangedPredicate: filters updates only
LabelChanged(e) ==
    e.type = "Update" => e.old.labels # e.new.labels

Holds(p, e) ==
    CASE p = GenerationChangedPredicate -> GenerationChanged(e)
      [] p = LabelChangedPredicate      -> LabelChanged(e)

\* the predicate of a watch: predicate.Or of the predicates given
PredicatePasses(w, e) == \E p \in w.anyOf : Holds(p, e)

\* an owner handler that does not compare the kind of the owner reference
OwnerRequests_AnyKind(o, ownerKind) ==
    IF o.owner.controller
    THEN {Request(o.namespace, o.owner.name)}
    ELSE {}

\* a handler that always enqueues the object itself
HandlerRequests_Self(w, e) ==
    {Request(e.new.namespace, e.new.name)}

\* what handler.EnqueueRequestForOwner with OnlyControllerOwner() finds for
\* one object: the owner reference with controller = true, when it is of
\* the owner kind, named in the namespace of the object
OwnerRequests(o, ownerKind) ==
    IF o.owner.controller /\ o.owner.kind = ownerKind
    THEN {Request(o.namespace, o.owner.name)}
    ELSE {}

\* the requests the handler of watch w adds to the queue for event e
HandlerRequests(w, e) ==
    IF w.handler = EnqueueRequestForObject
    THEN {Request(e.new.namespace, e.new.name)}
    ELSE IF e.type = "Update"
         THEN OwnerRequests(e.old, w.owner) \cup OwnerRequests(e.new, w.owner)
         ELSE OwnerRequests(e.new, w.owner)

\* a cache that holds the objects of every namespace whatever its options
InCache_Cluster(o) ==
    o.namespace \in Namespaces

\* a cache with DefaultNamespaces holds the objects of those namespaces only
InCache(o) ==
    opts.DefaultNamespaces = {} \/ o.namespace \in opts.DefaultNamespaces

\* watches that feed the queue of every controller, not only their own
RouteAdds_AnyController(c, e) ==
    IF ~InCache(e.new) THEN {}
    ELSE UNION {HandlerRequests(w, e) :
                  w \in {x \in watches : x.kind = e.new.kind /\ PredicatePasses(x, e)}}

\* the requests event e adds to the queue of controller c: those of the
\* handlers of c's watches on the kind of the object, when the cache holds
\* the object and the predicate of the watch lets the event pass
RouteAdds(c, e) ==
    IF ~InCache(e.new) THEN {}
    ELSE UNION {HandlerRequests(w, e) :
                  w \in {x \in watches : x.ctrl = c /\ x.kind = e.new.kind
                                                   /\ PredicatePasses(x, e)}}

-----------------------------------------------------------------------------
(* The work queue of a controller (client-go workqueue): items are added *)
(* once, an item added while a worker holds it is queued again when the  *)
(* worker is done with it. The queue is rate limited: failures holds the *)
(* items its rate limiter counts failures for (NumRequeues > 0).         *)

EmptyQueue == [items |-> <<>>, dirty |-> {}, processing |-> {}, failures |-> {}]

\* a queue that appends whatever is added
QueueAdd_NoDedup(q, r) ==
    [q EXCEPT !.dirty = @ \cup {r}, !.items = Append(@, r)]

QueueAdd(q, r) ==
    IF r \in q.dirty THEN q
    ELSE IF r \in q.processing THEN [q EXCEPT !.dirty = @ \cup {r}]
    ELSE [q EXCEPT !.dirty = @ \cup {r}, !.items = Append(@, r)]

\* the orders in which a handler may add the requests rs (it ranges over
\* a map)
RECURSIVE Orders(_)
Orders(rs) ==
    IF rs = {} THEN {<<>>}
    ELSE UNION {{<<r>> \o t : t \in Orders(rs \ {r})} : r \in rs}

RECURSIVE QueueAddAll(_, _)
QueueAddAll(q, rs) ==
    IF rs = <<>> THEN q
    ELSE QueueAddAll(QueueAdd(q, Head(rs)), Tail(rs))

QueueGet(q) ==
    [q EXCEPT !.items = Tail(@), !.dirty = @ \ {Head(q.items)},
              !.processing = @ \cup {Head(q.items)}]

QueueDone(q, r) ==
    IF r \in q.dirty
    THEN [q EXCEPT !.processing = @ \ {r}, !.items = Append(@, r)]
    ELSE [q EXCEPT !.processing = @ \ {r}]

\* AddRateLimited: the rate limiter counts a failure of r, and r is added
\* (the delay before the add is not modelled)
QueueAddRateLimited(q, r) ==
    QueueAdd([q EXCEPT !.failures = @ \cup {r}], r)

\* Forget: the rate limiter stops counting failures of r
QueueForget(q, r) ==
    [q EXCEPT !.failures = @ \ {r}]

-----------------------------------------------------------------------------
(* The state before Start runs.                                          *)


\* values of ARGO_EVENTS_IMAGE: not set, set to "", set to an image name
ImageValues == {Unset, Set(<<>>), Set(<<"i", "m", "g">>)}

\* values of a duration variable: not set, empty, two durations, and two
\* strings that are none
SampleDurationValues ==
    {Unset, Set(<<>>), Set(<<"5", "s">>), Set(<<"1", "m">>),
     Set(<<"5", "x">>), Set(<<"1", "5">>)}

EventsOpts ==
    [Namespaced : BOOLEAN, ManagedNamespace : Namespaces, LeaderElection : BOOLEAN,
     MetricsPort : {7777}, HealthPort : {8081}]

NoOptions ==
    [MetricsBindAddress |-> <<>>, HealthProbeBindAddress |-> <<>>,
     DefaultNamespaces |-> {}, LeaderElection |-> FALSE, LeaderElectionID |-> "",
     LeaseDuration |-> <<>>, RenewDeadline |-> <<>>, RetryPeriod |-> <<>>]

NoFatal == [msg |-> "", with |-> ""]

NoManager == [created |-> FALSE, readyz |-> {}, healthz |-> {}, scheme |-> {}]

InitProcess ==
    /\ pc = "LoadConfig"
    /\ exitCode = "none"
    /\ fatalMsg = NoFatal
    /\ imageName = <<>>
    /\ opts = NoOptions
    /\ mgr = NoManager
    /\ controllers = {}
    /\ watches = {}
    /\ ctx = "live"
    /\ leading = FALSE
    /\ queue = [c \in ControllerNames |-> EmptyQueue]
    /\ event = NoEvent
    /\ adds = <<>>
    /\ resolved = <<>>

Init ==
    /\ env \in [EnvKeys -> ImageValues \cup SampleDurationValues]
    /\ env[imageEnvVar] \in ImageValues
    /\ \A k \in DurationKeys : env[k] \in SampleDurationValues
    /\ eventsOpts \in EventsOpts
    /\ InitProcess

-----------------------------------------------------------------------------
(* Start, statement by statement. A Fatal log call ends the process with *)
(* exit code 1; so do the OrDie calls.                                   *)

FatalWith(msg, field) ==
    /\ pc' = "exited"
    /\ exitCode' = "1"
    /\ fatalMsg' = [msg |-> msg, with |-> field]

Fatal(msg) == FatalWith(msg, "error")

Goto(l) ==
    /\ pc' = l
    /\ UNCHANGED <<exitCode, fatalMsg>>

\* config, err := controllers.LoadConfig(..)
LoadConfig ==
    /\ pc = "LoadConfig"
    /\ \E err \in BOOLEAN :
          IF err THEN Fatal("Failed to load global configuration file")
                 ELSE Goto(After("LoadConfig"))
    /\ UNCHANGED <<inputVars, imageName, opts, mgr, controllers, watches, runVars, resolved>>

\* err = controllers.ValidateConfig(config)
ValidateConfig ==
    /\ pc = "ValidateConfig"
    /\ \E err \in BOOLEAN :
          IF err THEN Fatal("Global configuration file validation failed")
                 ELSE Goto(After("ValidateConfig"))
    /\ UNCHANGED <<inputVars, imageName, opts, mgr, controllers, watches, runVars, resolved>>

\* Start without the test of defined
LookupImage_NoCheck ==
    /\ pc = "LookupImage"
    /\ Goto(After("LookupImage"))
    /\ imageName' = LookupEnv(imageEnvVar).v
    /\ UNCHANGED <<inputVars, opts, mgr, controllers, watches, runVars, resolved>>

\* a Start that takes an empty image name for an undefined one
LookupImage_EmptyIsAbsent ==
    /\ pc = "LookupImage"
    /\ LET l == LookupEnv(imageEnvVar)
       IN  IF ~l.found \/ l.v = <<>>
           THEN /\ Fatal("required environment variable '%s' not defined")
                /\ UNCHANGED imageName
           ELSE /\ Goto(After("LookupImage"))
                /\ imageName' = l.v
    /\ UNCHANGED <<inputVars, opts, mgr, controllers, watches, runVars, resolved>>

\* imageName, defined := os.LookupEnv(imageEnvVar)
LookupImage ==
    /\ pc = "LookupImage"
    /\ LET l == LookupEnv(imageEnvVar)
       IN  IF ~l.found
           THEN /\ Fatal("required environment variable '%s' not defined")
                /\ UNCHANGED imageName
           ELSE /\ Goto(After("LookupImage"))
                /\ imageName' = l.v
    /\ UNCHANGED <<inputVars, opts, mgr, controllers, watches, runVars, resolved>>

\* Start without opts.LeaderElection = true
Options_NoElection ==
    /\ pc = "Options"
    /\ opts' = [opts EXCEPT
                  !.MetricsBindAddress     = <<":", eventsOpts.MetricsPort>>,
                  !.HealthProbeBindAddress = <<":", eventsOpts.HealthPort>>,
                  !.DefaultNamespaces      = IF eventsOpts.Namespaced
                                             THEN {eventsOpts.ManagedNamespace}
                                             ELSE {},
                  !.LeaderElectionID       = IF eventsOpts.LeaderElection
                                             THEN "argo-events-controller" ELSE ""]
    /\ IF eventsOpts.LeaderElection THEN Goto("LeaseDuration")
                                    ELSE Goto("GetConfigOrDie")
    /\ UNCHANGED <<inputVars, imageName, mgr, controllers, watches, runVars, resolved>>

\* a Start that resolves the three durations whatever LeaderElection is
Options_AlwaysResolve ==
    /\ pc = "Options"
    /\ opts' = [opts EXCEPT
                  !.MetricsBindAddress     = <<":", eventsOpts.MetricsPort>>,
                  !.HealthProbeBindAddress = <<":", eventsOpts.HealthPort>>,
                  !.DefaultNamespaces      = IF eventsOpts.Namespaced
                                             THEN {eventsOpts.ManagedNamespace}
                                             ELSE {},
                  !.LeaderElection         = eventsOpts.LeaderElection,
                  !.LeaderElectionID       = IF eventsOpts.LeaderElection
                                             THEN "argo-events-controller" ELSE ""]
    /\ Goto("LeaseDuration")
    /\ UNCHANGED <<inputVars, imageName, mgr, controllers, watches, runVars, resolved>>

\* opts := ctrl.Options{..}; if Namespaced {..}; if LeaderElection {
\* opts.LeaderElection = true; opts.LeaderElectionID = ..
Options ==
    /\ pc = "Options"
    /\ opts' = [opts EXCEPT
                  !.MetricsBindAddress     = <<":", eventsOpts.MetricsPort>>,
                  !.HealthProbeBindAddress = <<":", eventsOpts.HealthPort>>,
                  !.DefaultNamespaces      = IF eventsOpts.Namespaced
                                             THEN {eventsOpts.ManagedNamespace}
                                             ELSE {},
                  !.LeaderElection         = eventsOpts.LeaderElection,
                  !.LeaderElectionID       = IF eventsOpts.LeaderElection
                                             THEN "argo-events-controller" ELSE ""]
    /\ IF eventsOpts.LeaderElection THEN Goto("LeaseDuration")
                                    ELSE Goto("GetConfigOrDie")
    /\ UNCHANGED <<inputVars, imageName, mgr, controllers, watches, runVars, resolved>>

SetDuration(o, key, d) ==
    CASE key = LeaseDurationKey -> [o EXCEPT !.LeaseDuration = d]
      [] key = RenewDeadlineKey -> [o EXCEPT !.RenewDeadline = d]
      [] key = RetryPeriodKey   -> [o EXCEPT !.RetryPeriod = d]

\* opts.LeaseDuration = lookupEnvDurationOr("LEADER_ELECTION_LEASE_DURATION",
\* 15*time.Second), and the same for RenewDeadline and RetryPeriod
ResolveDuration ==
    /\ pc \in DurationSteps
    /\ LET key == DurationStepKey(pc)
           r   == lookupEnvDurationOr(key, Fallback(key))
       IN  IF r.fatal
           THEN /\ FatalWith("parsing %s duration", key)
                /\ UNCHANGED opts
           ELSE /\ Goto(After(pc))
                /\ opts' = SetDuration(opts, key, r.d)
    /\ UNCHANGED <<inputVars, imageName, mgr, controllers, watches, runVars, resolved>>

\* restConfig := ctrl.GetConfigOrDie()
GetConfigOrDie ==
    /\ pc = "GetConfigOrDie"
    /\ \E err \in BOOLEAN :
          IF err THEN Fatal("unable to get kubeconfig")
                 ELSE Goto(After("GetConfigOrDie"))
    /\ UNCHANGED <<inputVars, imageName, opts, mgr, controllers, watches, runVars, resolved>>

\* mgr, err := ctrl.NewManager(restConfig, opts)
NewManager ==
    /\ pc = "NewManager"
    /\ \E err \in BOOLEAN :
          IF err THEN /\ Fatal("Unable to get a controller-runtime manager")
                      /\ UNCHANGED mgr
                 ELSE /\ Goto(After("NewManager"))
                      /\ mgr' = [mgr EXCEPT !.created = TRUE]
    /\ UNCHANGED <<inputVars, imageName, opts, controllers, watches, runVars, resolved>>

\* kubeClient := kubernetes.NewForConfigOrDie(restConfig)
NewKubeClient ==
    /\ pc = "NewKubeClient"
    /\ \E err \in BOOLEAN :
          IF err THEN Fatal("NewForConfigOrDie")
                 ELSE Goto(After("NewKubeClient"))
    /\ UNCHANGED <<inputVars, imageName, opts, mgr, controllers, watches, runVars, resolved>>

\* mgr.AddReadyzCheck("readiness", healthz.Ping)
AddReadyzCheck ==
    /\ pc = "AddReadyzCheck"
    /\ \E err \in BOOLEAN :
          IF err THEN /\ Fatal("Unable add a readiness check")
                      /\ UNCHANGED mgr
                 ELSE /\ Goto(After("AddReadyzCheck"))
                      /\ mgr' = [mgr EXCEPT !.readyz = @ \cup {"readiness"}]
    /\ UNCHANGED <<inputVars, imageName, opts, controllers, watches, runVars, resolved>>

\* mgr.AddHealthzCheck("liveness", healthz.Ping)
AddHealthzCheck ==
    /\ pc = "AddHealthzCheck"
    /\ \E err \in BOOLEAN :
          IF err THEN /\ Fatal("Unable add a health check")
                      /\ UNCHANGED mgr
                 ELSE /\ Goto(After("AddHealthzCheck"))
                      /\ mgr' = [mgr EXCEPT !.healthz = @ \cup {"liveness"}]
    /\ UNCHANGED <<inputVars, imageName, opts, controllers, watches, runVars, resolved>>

\* eventbusv1alpha1.AddToScheme(mgr.GetScheme()), then the EventSource's
\* and the Sensor's
AddToScheme ==
    /\ pc \in SchemeSteps
    /\ \E err \in BOOLEAN :
          IF err THEN /\ Fatal(StepMessage(pc))
                      /\ UNCHANGED mgr
                 ELSE /\ Goto(After(pc))
                      /\ mgr' = [mgr EXCEPT !.scheme = @ \cup {SchemeStepKind(pc)}]
    /\ UNCHANGED <<inputVars, imageName, opts, controllers, watches, runVars, resolved>>

\* controller.New(name, mgr, controller.Options{Reconciler: ..})
NewController ==
    /\ pc \in ControllerSteps
    /\ \E err \in BOOLEAN :
          IF err THEN /\ Fatal(StepMessage(pc))
                      /\ UNCHANGED controllers
                 ELSE /\ Goto(After(pc))
                      /\ controllers' = controllers \cup
                            {[name      |-> ControllerStep(pc).name,
                              withImage |-> ControllerStep(pc).withImage,
                              image     |-> IF ControllerStep(pc).withImage
                                            THEN imageName ELSE <<>>]}
    /\ UNCHANGED <<inputVars, imageName, opts, mgr, watches, runVars, resolved>>

\* Start going on after a Watch call that failed
Watch_IgnoreError ==
    /\ pc \in WatchSteps
    /\ \E err \in BOOLEAN :
          /\ Goto(After(pc))
          /\ watches' = IF err THEN watches ELSE watches \cup {WatchStep(pc)}
    /\ UNCHANGED <<inputVars, imageName, opts, mgr, controllers, runVars, resolved>>

\* c.Watch(source.Kind(mgr.GetCache(), &kind{}), handler, predicate)
Watch ==
    /\ pc \in WatchSteps
    /\ \E err \in BOOLEAN :
          IF err THEN /\ Fatal(StepMessage(pc))
                      /\ UNCHANGED watches
                 ELSE /\ Goto(After(pc))
                      /\ watches' = watches \cup {WatchStep(pc)}
    /\ UNCHANGED <<inputVars, imageName, opts, mgr, controllers, runVars, resolved>>

\* mgr.Start(signals.SetupSignalHandler()): blocks (pc = "run"), or fails
MgrStart ==
    /\ pc = "MgrStart"
    /\ \E err \in BOOLEAN :
          IF err THEN Fatal("Unable to start controller manager")
                 ELSE Goto("run")
    /\ UNCHANGED <<inputVars, imageName, opts, mgr, controllers, watches, runVars, resolved>>

-----------------------------------------------------------------------------
(* The manager while mgr.Start blocks. The controllers are runnables     *)
(* that need leader election: the manager starts their watches and       *)
(* workers at once without leader election, and with it once the lease   *)
(* is won. When the lease is lost mgr.Start returns an error ("leader    *)
(* election lost"); when the context is cancelled it returns nil.        *)

ControllersStarted ==
    /\ pc = "run"
    /\ ctx = "live"
    /\ opts.LeaderElection => leading

\* the health probe server answers a probe with the checks Start has added
\* (healthz.Ping never fails), from the start of the manager until its
\* context is cancelled, whether or not the manager leads
ReadyzResponds  == pc = "run" /\ ctx = "live" /\ "readiness" \in mgr.readyz
HealthzResponds == pc = "run" /\ ctx = "live" /\ "liveness" \in mgr.healthz

\* SIGTERM or SIGINT cancels the context of signals.SetupSignalHandler()
Signal ==
    /\ pc = "run"
    /\ ctx = "live"
    /\ ctx' = "cancelled"
    /\ UNCHANGED <<inputVars, bootVars, leading, queue, event, adds, resolved>>

\* the leader elector of the manager acquires the lease
AcquireLease ==
    /\ pc = "run"
    /\ ctx = "live"
    /\ opts.LeaderElection
    /\ ~leading
    /\ leading' = TRUE
    /\ UNCHANGED <<inputVars, imageName, opts, mgr, controllers, watches,
                   pc, exitCode, fatalMsg, ctx, queue, event, adds, resolved>>

\* a manager that keeps running when the lease is lost
LoseLease_Soft ==
    /\ pc = "run"
    /\ leading
    /\ leading' = FALSE
    /\ UNCHANGED <<inputVars, bootVars, ctx, queue, event, adds, resolved>>

\* the leader elector fails to renew the lease within RenewDeadline:
\* mgr.Start returns the error, which Start logs with Fatalw
LoseLease ==
    /\ pc = "run"
    /\ leading
    /\ leading' = FALSE
    /\ FatalWith("Unable to start controller manager", "leader election lost")
    /\ UNCHANGED <<inputVars, imageName, opts, mgr, controllers, watches,
                   ctx, queue, event, adds, resolved>>

\* a manager whose Start returns nil at any time
MgrStartReturns_Early ==
    /\ pc = "run"
    /\ pc' = "returned"
    /\ UNCHANGED <<inputVars, imageName, opts, mgr, controllers, watches,
                   exitCode, fatalMsg, runVars, resolved>>

\* mgr.Start returns nil after the context is cancelled, and Start returns
MgrStartReturns ==
    /\ pc = "run"
    /\ ctx = "cancelled"
    /\ pc' = "returned"
    /\ UNCHANGED <<inputVars, imageName, opts, mgr, controllers, watches,
                   exitCode, fatalMsg, runVars, resolved>>

\* the queue of controller c after the handlers of its watches have added
\* the requests of event e, in any order
Enqueued(c, e) ==
    {QueueAddAll(queue[c], order) : order \in Orders(RouteAdds(c, e))}

\* the cache hands event e to the watches of the started controllers, whose
\* handlers add their requests to the queues
CacheEvent(e) ==
    /\ ControllersStarted
    /\ \E qb \in Enqueued(EventBusController, e),
          qe \in Enqueued(EventSourceController, e),
          qs \in Enqueued(SensorController, e) :
          queue' = (EventBusController :> qb) @@ (EventSourceController :> qe)
                   @@ (SensorController :> qs)
    /\ UNCHANGED <<inputVars, bootVars, ctx, leading, resolved>>

\* the events the running manager is followed through: an object named a
\* is created in namespace ns-a, with no owner or with a controller owner,
\* which is an EventBus named a or b, or an EventSource or a Sensor named a
RunEvents ==
    {ObjectEvent("Create", o) :
        o \in [kind : Kinds, namespace : {"ns-a"}, name : {"a"}, generation : {1},
               labels : {{}}, status : {"Pending"},
               owner : {w \in OwnerRefs :
                          \/ w = NoOwner
                          \/ w.controller /\ (w.kind = EventBus \/ w.name = "a")}]}

DeliverEvent ==
    /\ ControllersStarted
    /\ \E e \in RunEvents : CacheEvent(e)
    /\ UNCHANGED <<event, adds>>

\* one event, with what it added to each queue
Observe(e) ==
    /\ CacheEvent(e)
    /\ event' = e
    /\ adds' = <<[c \in ControllerNames |-> RouteAdds(c, e)]>>

\* an object is created or deleted
ObserveObjectEvent ==
    /\ event = NoEvent
    /\ ControllersStarted
    /\ \E t \in {"Create", "Delete"},
          o \in ObjectsOfGenerations(1..(MaxGeneration + 1)) :
           Observe(ObjectEvent(t, o))

\* an object is written: any of its generation, labels, status and owner
\* reference may change
ObserveUpdateEvent ==
    /\ event = NoEvent
    /\ ControllersStarted
    /\ \E o \in ObjectsOfGenerations(1..MaxGeneration) :
          \E g \in {o.generation, o.generation + 1}, l \in LabelSets,
             st \in Statuses, w \in OwnerRefs :
              Observe(UpdateEvent(o, g, l, st, w))

\* the worker of controller c (MaxConcurrentReconciles is left at 1) takes
\* the next request from the queue
ProcessNextWorkItem(c) ==
    /\ ControllersStarted
    /\ c \in {x.name : x \in controllers}
    /\ queue[c].processing = {}
    /\ queue[c].items # <<>>
    /\ queue' = [queue EXCEPT ![c] = QueueGet(@)]
    /\ UNCHANGED <<inputVars, bootVars, ctx, leading, event, adds, resolved>>

\* a controller whose reconcile error ends the process
ReconcileReturns_Fatal(c, r, err) ==
    /\ pc = "run"
    /\ r \in queue[c].processing
    /\ queue' = [queue EXCEPT ![c] = IF err THEN QueueDone(QueueAddRateLimited(@, r), r)
                                            ELSE QueueDone(QueueForget(@, r), r)]
    /\ IF err THEN Fatal("Reconciler error") ELSE UNCHANGED <<pc, exitCode, fatalMsg>>
    /\ UNCHANGED <<inputVars, imageName, opts, mgr, controllers, watches,
                   ctx, leading, event, adds, resolved>>

\* Reconcile returns for request r: without error the request is forgotten
\* by the rate limiter and done, with an error it is added again
\* (AddRateLimited) before it is done
ReconcileReturns(c, r, err) ==
    /\ pc = "run"
    /\ r \in queue[c].processing
    /\ queue' = [queue EXCEPT ![c] = IF err THEN QueueDone(QueueAddRateLimited(@, r), r)
                                            ELSE QueueDone(QueueForget(@, r), r)]
    /\ UNCHANGED <<inputVars, bootVars, ctx, leading, event, adds, resolved>>

Work ==
    \E c \in ControllerNames : ProcessNextWorkItem(c)

Reconciled ==
    \E c \in ControllerNames, r \in Requests, err \in BOOLEAN : ReconcileReturns(c, r, err)

-----------------------------------------------------------------------------
(* lookupEnvDurationOr on its own.                                       *)

Resolve ==
    /\ resolved = <<>>
    /\ \E key \in DurationKeys :
          resolved' = <<[key |-> key, r |-> lookupEnvDurationOr(key, Fallback(key))]>>
    /\ UNCHANGED <<inputVars, bootVars, runVars>>

-----------------------------------------------------------------------------
(* The specifications.                                                   *)

\* the statements of Start that run whatever the options are
NextBootAlways ==
    \/ LoadConfig
    \/ ValidateConfig
    \/ LookupImage
    \/ Options
    \/ GetConfigOrDie
    \/ NewManager
    \/ NewKubeClient
    \/ AddReadyzCheck
    \/ AddHealthzCheck
    \/ AddToScheme
    \/ NewController
    \/ Watch
    \/ MgrStart

NextBoot ==
    \/ NextBootAlways
    \/ ResolveDuration

\* Start from any environment and any options, up to the end of the process
Next ==
    \/ NextBoot
    \/ Signal
    \/ AcquireLease
    \/ LoseLease
    \/ MgrStartReturns

Spec == Init /\ [][Next]_vars

\* the environment of the running manager: the image is set, the durations
\* are not
RunEnv ==
    [k \in EnvKeys |-> IF k = imageEnvVar THEN Set(<<"i", "m", "g">>) ELSE Unset]

\* Start and the running manager, with its queues and workers
InitRun ==
    /\ env = RunEnv
    /\ eventsOpts \in EventsOpts
    /\ InitProcess

NextRun ==
    \/ Next
    \/ DeliverEvent
    \/ Work
    \/ Reconciled

SpecRun == InitRun /\ [][NextRun]_vars

\* mgr.Start selects on ctx.Done(): once the context is cancelled it stops
\* its runnables and returns
SpecRunFair == SpecRun /\ WF_vars(MgrStartReturns)

\* Start without leader election, and one event of the cache
InitRoute ==
    /\ env = RunEnv
    /\ eventsOpts \in {o \in EventsOpts : ~o.LeaderElection /\ o.ManagedNamespace = "ns-a"}
    /\ InitProcess

NextRoute ==
    \/ NextBootAlways
    \/ ObserveObjectEvent
    \/ ObserveUpdateEvent

SpecRoute == InitRoute /\ [][NextRoute]_vars

\* one call of lookupEnvDurationOr, for one variable of any value
ResolverValues == {Unset} \cup {Set(str) : str \in StringsUpTo(MaxLen)}

InitResolve ==
    /\ env \in {[j \in EnvKeys |-> IF j = k THEN v ELSE Unset] :
                  k \in DurationKeys, v \in ResolverValues}
    /\ eventsOpts \in {o \in EventsOpts : o.LeaderElection /\ ~o.Namespaced
                                          /\ o.ManagedNamespace = "ns-a"}
    /\ InitProcess

NextResolve == Resolve

SpecResolve == InitResolve /\ [][NextResolve]_vars

-----------------------------------------------------------------------------
(* The claims.                                                           *)

\* Start has gone past statement l
Past(l) ==
    \/ pc \in {"run", "returned"}
    \/ /\ pc \in {StartSteps[i] : i \in 1..Len(StartSteps)}
       /\ StepIndex(pc) > StepIndex(l)

StepOfKey(k) == CHOOSE l \in DurationSteps : DurationStepKey(l) = k

OptsDuration(k) ==
    CASE k = LeaseDurationKey -> opts.LeaseDuration
      [] k = RenewDeadlineKey -> opts.RenewDeadline
      [] k = RetryPeriodKey   -> opts.RetryPeriod

UnsetOrEmpty(k) == ~env[k].found \/ env[k].v = <<>>
Malformed(k)    == env[k].found /\ env[k].v # <<>> /\ ParseDuration(env[k].v).err

DeclaredFallback(k) ==
    CASE k = LeaseDurationKey -> <<15 * Second>>
      [] k = RenewDeadlineKey -> <<10 * Second>>
      [] k = RetryPeriodKey   -> <<5 * Second>>

\* C1: a malformed value of a leader-election duration variable never ends
\* the process: no fatal error is logged for the variable, and once Start
\* is past the statement that resolves it, the option holds the fallback.
C1_MalformedDurationFallsBack ==
    \A k \in DurationKeys :
        Malformed(k) =>
            /\ ~(fatalMsg.msg = "parsing %s duration" /\ fatalMsg.with = k)
            /\ (eventsOpts.LeaderElection /\ Past(StepOfKey(k)))
                  => OptsDuration(k) = DeclaredFallback(k)

\* C2: with leader election enabled, a duration variable that is not set
\* or is set to the empty string never ends the process, and once Start is
\* past the statement that resolves it the manager options hold the
\* declared fallback: 15s for the lease duration, 10s for the renew
\* deadline, 5s for the retry period.
C2_UnsetOrEmptyGivesFallback ==
    \A k \in DurationKeys :
        UnsetOrEmpty(k) =>
            /\ fatalMsg.with # k
            /\ (eventsOpts.LeaderElection /\ Past(StepOfKey(k)))
                  => OptsDuration(k) = DeclaredFallback(k)

C2_Witness ==
    /\ pc = "run"
    /\ eventsOpts.LeaderElection
    /\ env[LeaseDurationKey] = Set(<<>>)
    /\ env[RenewDeadlineKey] = Unset
    /\ env[RetryPeriodKey] = Set(<<"5", "s">>)
    /\ opts.LeaseDuration = <<15 * Second>>
    /\ opts.RenewDeadline = <<10 * Second>>

\* C6: when ARGO_EVENTS_IMAGE is not defined, the manager is never
\* constructed, no controller is created, no watch is registered and
\* mgr.Start is never entered.
C6_NoImageNothingRegistered ==
    ~env[imageEnvVar].found =>
        /\ ~mgr.created
        /\ controllers = {}
        /\ watches = {}
        /\ pc \notin {"MgrStart", "run", "returned"}

C6_Witness ==
    /\ ~env[imageEnvVar].found
    /\ pc = "exited"
    /\ exitCode = "1"
    /\ fatalMsg.msg = "required environment variable '%s' not defined"

C7_NineWatches ==
    {<<EventBusController, EventBus>>, <<EventBusController, ConfigMap>>,
     <<EventBusController, StatefulSet>>, <<EventBusController, Service>>,
     <<EventSourceController, EventSource>>, <<EventSourceController, Deployment>>,
     <<EventSourceController, Service>>,
     <<SensorController, Sensor>>, <<SensorController, Deployment>>}

C7_AllRegistered ==
    /\ {c.name : c \in controllers} = ControllerNames
    /\ {<<w.ctrl, w.kind>> : w \in watches} = C7_NineWatches
    /\ Cardinality(watches) = 9

\* C7: whenever mgr.Start has been entered, the three controllers and the
\* nine watches are registered; a step that logs a fatal error ends the
\* process, and an ended process takes no further step.
C7_AllOrNothing ==
    /\ [](pc \in {"run", "returned"} => C7_AllRegistered)
    /\ [][/\ pc # "exited"
          /\ fatalMsg' # fatalMsg => (pc' = "exited" /\ exitCode' = "1")]_vars

C7_Witness ==
    /\ pc = "run"
    /\ C7_AllRegistered

C3_Controller(k) ==
    CASE k = EventBus    -> EventBusController
      [] k = EventSource -> EventSourceController
      [] k = Sensor      -> SensorController

\* C3: an update of an EventBus, EventSource or Sensor that changes neither
\* its generation nor its labels adds no request to any queue; one that
\* changes its labels or its generation (and that the cache delivers) adds
\* exactly one request, the object's own namespaced name, to the queue of
\* the controller of its kind, and nothing to the other queues.
C3_PrimaryUpdateRouting ==
    (adds # <<>> /\ event.type = "Update" /\ event.new.kind \in PrimaryKinds) =>
        LET own     == Request(event.new.namespace, event.new.name)
            c       == C3_Controller(event.new.kind)
            changed == \/ event.old.generation # event.new.generation
                       \/ event.old.labels # event.new.labels
        IN  /\ ~changed =>
                  \A x \in ControllerNames : adds[1][x] = {} /\ queue[x].items = <<>>
            /\ (changed /\ InCache(event.new)) =>
                  /\ adds[1][c] = {own}
                  /\ queue[c].items = <<own>>
                  /\ \A x \in ControllerNames \ {c} :
                        adds[1][x] = {} /\ queue[x].items = <<>>

C3_Witness ==
    /\ adds # <<>>
    /\ event.type = "Update"
    /\ event.new.kind = EventSource
    /\ event.old.generation = event.new.generation
    /\ event.old.labels # event.new.labels
    /\ event.old.status = event.new.status
    /\ adds[1][EventSourceController] = {Request(event.new.namespace, event.new.name)}

C4_Owned(o, k) == o.owner.controller /\ o.owner.kind = k

\* C4: for every watch registered with EnqueueRequestForOwner, an event of
\* the watched kind whose object (before and after, for an update) has no
\* controller owner reference of the watch's owner kind adds no request to
\* the queue of that watch's controller, and the process keeps running.
C4_ForeignOwnerDropped ==
    adds # <<>> =>
        \A w \in watches :
            ( /\ w.handler = EnqueueRequestForOwner
              /\ event.new.kind = w.kind
              /\ ~C4_Owned(event.old, w.owner)
              /\ ~C4_Owned(event.new, w.owner) ) =>
                /\ adds[1][w.ctrl] = {}
                /\ queue[w.ctrl].items = <<>>
                /\ pc = "run"
                /\ exitCode = "none"

C4_Witness ==
    /\ adds # <<>>
    /\ event.type = "Create"
    /\ event.new.kind = Service
    /\ event.new.owner.kind = EventSource
    /\ event.new.owner.controller
    /\ adds[1][EventBusController] = {}
    /\ adds[1][EventSourceController] # {}

C5_Owners(w) ==
    {x \in {event.old, event.new} : x.owner.controller /\ x.owner.kind = w.owner}

\* C5: for every watch registered with EnqueueRequestForOwner, an event of
\* the watched kind that reaches the handler (the cache delivers it and the
\* watch's predicate passes it) adds to the queue of the watch's controller
\* exactly the owner names of its controller owner references of the
\* watch's owner kind, in the namespace of the object; the object's own
\* name is not added unless the owner bears the same name.
C5_OwnerKeyEnqueued ==
    adds # <<>> =>
        \A w \in watches :
            ( /\ w.handler = EnqueueRequestForOwner
              /\ event.new.kind = w.kind
              /\ InCache(event.new)
              /\ event.type = "Update" => event.old.generation # event.new.generation ) =>
                /\ adds[1][w.ctrl] =
                      {Request(x.namespace, x.owner.name) : x \in C5_Owners(w)}
                /\ (\A x \in C5_Owners(w) : x.owner.name # event.new.name) =>
                      Request(event.new.namespace, event.new.name) \notin adds[1][w.ctrl]
                /\ \A r \in adds[1][w.ctrl] : r \in queue[w.ctrl].dirty

C5_Witness ==
    /\ adds # <<>>
    /\ event.type = "Update"
    /\ event.new.kind = Deployment
    /\ event.new.name = "a"
    /\ event.old.owner = [kind |-> Sensor, name |-> "b", controller |-> TRUE]
    /\ event.new.owner = event.old.owner
    /\ adds[1][SensorController] = {Request(event.new.namespace, "b")}
    /\ adds[1][EventSourceController] = {}

\* C8: with leader election enabled, while the manager runs without the
\* lease no worker holds a request and no step takes a request from a
\* queue, and the readiness and liveness probes respond.
C8_StandbyIdle ==
    /\ []((eventsOpts.LeaderElection /\ pc = "run" /\ ctx = "live" /\ ~leading) =>
            /\ \A c \in ControllerNames : queue[c].processing = {}
            /\ ReadyzResponds
            /\ HealthzResponds)
    /\ [][(eventsOpts.LeaderElection /\ ~leading) =>
            \A c \in ControllerNames : queue'[c].processing \subseteq queue[c].processing]_vars

C8_Witness ==
    /\ eventsOpts.LeaderElection
    /\ pc = "run"
    /\ ctx = "live"
    /\ ~leading
    /\ ReadyzResponds
    /\ HealthzResponds

C11_OtherNamespaceNeverQueued ==
    /\ \A w \in watches : DOMAIN w = {"ctrl", "kind", "handler", "owner", "anyOf"}
    /\ eventsOpts.Namespaced =>
          /\ \A c \in ControllerNames :
                \A i \in 1..Len(queue[c].items) :
                    queue[c].items[i].namespace = eventsOpts.ManagedNamespace
          /\ (adds # <<>> /\ event.new.namespace # eventsOpts.ManagedNamespace) =>
                \A c \in ControllerNames :
                    adds[1][c] = {} /\ queue[c] = EmptyQueue

C11_Witness ==
    /\ adds # <<>>
    /\ eventsOpts.Namespaced
    /\ eventsOpts.ManagedNamespace = "ns-a"
    /\ event.type = "Update"
    /\ event.new.kind = EventBus
    /\ event.new.namespace = "ns-b"
    /\ event.old.generation # event.new.generation
    /\ \A c \in ControllerNames : queue[c] = EmptyQueue

\* the controllers an event may concern: the controller of the object's own
\* kind, or a controller that watches the object's kind and whose kind is
\* named by the controller owner reference of the object (before or after
\* the write, for an update)
C12_Matched(c) ==
    \/ event.new.kind \in PrimaryKinds /\ c = C3_Controller(event.new.kind)
    \/ /\ <<c, event.new.kind>> \in C7_NineWatches
       /\ \E x \in {event.old, event.new} :
             /\ x.owner.controller
             /\ x.owner.kind \in PrimaryKinds
             /\ c = C3_Controller(x.owner.kind)

\* C12: an event changes the queue of no controller but those it concerns;
\* a Service whose controller owner is an EventBus adds nothing to the
\* queue of the EventSource controller and a Service of an EventSource
\* nothing to that of the EventBus controller, a Deployment of an
\* EventSource adds nothing to the queue of the Sensor controller and a
\* Deployment of a Sensor nothing to that of the EventSource controller.
C12_PipelinesIndependent ==
    adds # <<>> =>
        /\ \A c \in ControllerNames :
              ~C12_Matched(c) => (adds[1][c] = {} /\ queue[c] = EmptyQueue)
        /\ \A k \in {Service, Deployment}, o \in PrimaryKinds :
              ( /\ event.new.kind = k
                /\ C4_Owned(event.old, o)
                /\ C4_Owned(event.new, o) ) =>
                  \A c \in ControllerNames \ {C3_Controller(o)} :
                      adds[1][c] = {} /\ queue[c] = EmptyQueue

C12_Witness ==
    /\ adds # <<>>
    /\ event.type = "Create"
    /\ event.new.kind = Deployment
    /\ event.new.owner = [kind |-> EventSource, name |-> "b", controller |-> TRUE]
    /\ queue[EventSourceController].items = <<Request(event.new.namespace, "b")>>
    /\ queue[SensorController] = EmptyQueue
    /\ queue[EventBusController] = EmptyQueue

C13_Scenario ==
    /\ env[imageEnvVar].found
    /\ ~eventsOpts.Namespaced
    /\ ~eventsOpts.LeaderElection

\* C13: with the image set, Namespaced = false and LeaderElection = false,
\* a Start whose statements all succeed enters mgr.Start with the three
\* controllers and the nine watches registered; while the context is live
\* the process stays in mgr.Start and does not exit; it leaves mgr.Start
\* only after the signal, by returning with no fatal log and no exit code;
\* and once the signal has cancelled the context, mgr.Start eventually
\* returns and Start with it.
C13_RunsUntilSignal ==
    /\ []((C13_Scenario /\ pc \in {"run", "returned"}) =>
            /\ C7_AllRegistered
            /\ exitCode = "none"
            /\ fatalMsg = NoFatal
            /\ pc = "returned" => ctx = "cancelled")
    /\ [][(C13_Scenario /\ pc = "run" /\ ctx = "live") =>
            (pc' = "run" /\ exitCode' = "none")]_vars
    /\ [][(C13_Scenario /\ pc = "run" /\ pc' # "run") =>
            (ctx = "cancelled" /\ pc' = "returned" /\ exitCode' = "none")]_vars
    /\ (C13_Scenario /\ pc = "run" /\ ctx = "cancelled")
          ~> (pc = "returned" /\ exitCode = "none" /\ fatalMsg = NoFatal)

C13_Witness ==
    /\ C13_Scenario
    /\ pc = "returned"
    /\ ctx = "cancelled"
    /\ exitCode = "none"
    /\ C7_AllRegistered
    /\ queue[EventBusController].items # <<>>

C14_Occurrences(seq, r) == Cardinality({i \in 1..Len(seq) : seq[i] = r})

\* C14: in the queue of every controller each request is pending at most
\* once, whatever events of the object and of the objects it owns have
\* been delivered and whatever reconciles have returned; a request that is
\* added while a worker holds it is not pending until the worker is done.
C14_KeysCoalesced ==
    \A c \in ControllerNames :
        /\ \A r \in Requests : C14_Occurrences(queue[c].items, r) <= 1
        /\ \A r \in queue[c].processing : C14_Occurrences(queue[c].items, r) = 0

\* the request of EventBus a has been added again while a worker holds it
\* (by an event of the EventBus or of an object it owns, or by a requeue),
\* next to a pending request of EventBus b
C14_Witness ==
    LET q == queue[EventBusController]
    IN  /\ pc = "run"
        /\ q.processing = {Request("ns-a", "a")}
        /\ Request("ns-a", "a") \in q.dirty
        /\ q.items = <<Request("ns-a", "b")>>

\* a step in which the reconcile of request r of controller c returns
C15_Returns(c, r) ==
    r \in queue[c].processing /\ r \notin queue'[c].processing

\* C15: a step in which a reconcile returns, with an error or without,
\* leaves the process and the manager as they are (running, no exit code,
\* no fatal log, the context, the lease, the controllers and the watches)
\* and the queues of the other controllers unchanged; in the controller's
\* own queue it touches that request only: after an error the rate limiter
\* counts a failure of the request and the request is pending once. The
\* workers of all controllers can take their next request whatever
\* failures are counted.
C15_FailureIsolated ==
    /\ [][\A c \in ControllerNames, r \in Requests :
            C15_Returns(c, r) =>
                /\ pc = "run" /\ pc' = "run"
                /\ exitCode' = "none"
                /\ fatalMsg' = NoFatal
                /\ UNCHANGED <<ctx, leading, mgr, controllers, watches>>
                /\ \A x \in ControllerNames \ {c} : queue'[x] = queue[x]
                /\ queue'[c].processing = queue[c].processing \ {r}
                /\ queue'[c].dirty \ {r} = queue[c].dirty \ {r}
                /\ queue'[c].failures \ {r} = queue[c].failures \ {r}
                /\ queue'[c].items \in {queue[c].items, Append(queue[c].items, r)}
                /\ r \in queue'[c].failures =>
                      C14_Occurrences(queue'[c].items, r) = 1]_vars
    /\ [](\A x \in ControllerNames :
            ( /\ ControllersStarted
              /\ queue[x].items # <<>>
              /\ queue[x].processing = {} ) => ENABLED ProcessNextWorkItem(x))

\* the reconcile of EventBus a has failed and the request is pending
\* again, while the manager runs and the worker of the EventSource
\* controller holds a request
C15_Witness ==
    /\ pc = "run"
    /\ ctx = "live"
    /\ exitCode = "none"
    /\ Request("ns-a", "a") \in queue[EventBusController].failures
    /\ queue[EventBusController].items = <<Request("ns-a", "a")>>
    /\ queue[EventBusController].processing = {}
    /\ queue[EventSourceController].processing = {Request("ns-a", "a")}
    /\ queue[EventSourceController].failures = {}

C16_ProbesAndSchemes ==
    /\ mgr.created
    /\ "readiness" \in mgr.readyz
    /\ "liveness" \in mgr.healthz
    /\ mgr.scheme = PrimaryKinds

\* C16: whenever a controller exists or a watch is registered, the
\* readiness and the liveness check have been added and the three kinds
\* are in the scheme; every step that creates a controller or registers a
\* watch starts from such a state, is taken before mgr.Start is entered
\* and registers a watch only on a controller that exists; once mgr.Start
\* is entered the controllers, the watches and the manager's checks and
\* scheme no longer change.
C16_BootstrapOrder ==
    /\ []((controllers # {} \/ watches # {}) => C16_ProbesAndSchemes)
    /\ [](\A w \in watches : w.ctrl \in {c.name : c \in controllers})
    /\ [][(controllers' # controllers \/ watches' # watches) =>
            /\ C16_ProbesAndSchemes
            /\ pc \notin {"MgrStart", "run", "returned", "exited"}
            /\ pc' \notin {"run", "returned"}]_vars
    /\ [][(pc \in {"MgrStart", "run", "returned"}) =>
            UNCHANGED <<controllers, watches, mgr>>]_vars

C16_Witness ==
    /\ pc = "WatchEventBus"
    /\ {c.name : c \in controllers} = {EventBusController}
    /\ watches = {}
    /\ C16_ProbesAndSchemes

\* C17: an update of a ConfigMap, StatefulSet, Service or Deployment that
\* leaves its generation as it was adds no request to the queue of any
\* controller, whatever happens to its labels, its status and its owner
\* reference; an update of an owned object that raises the generation is
\* passed on, so the generation is what the predicate goes by.
C17_SubordinateLabelsIgnored ==
    (adds # <<>> /\ event.type = "Update" /\ event.new.kind \in SubordinateKinds) =>
        /\ event.old.generation = event.new.generation =>
              \A c \in ControllerNames : adds[1][c] = {} /\ queue[c] = EmptyQueue
        /\ \A w \in watches :
              ( /\ w.kind = event.new.kind
                /\ event.old.generation # event.new.generation
                /\ InCache(event.new)
                /\ C4_Owned(event.new, w.owner) ) =>
                  Request(event.new.namespace, event.new.owner.name) \in adds[1][w.ctrl]

C17_Witness ==
    /\ adds # <<>>
    /\ event.type = "Update"
    /\ event.new.kind = StatefulSet
    /\ InCache(event.new)
    /\ event.old.owner = [kind |-> EventBus, name |-> "a", controller |-> TRUE]
    /\ event.new.owner = event.old.owner
    /\ event.old.labels = {}
    /\ event.new.labels = {"app"}
    /\ event.old.generation = event.new.generation
    /\ queue[EventBusController] = EmptyQueue

\* the manager options of a Start without leader election: they are
\* made of eventsOpts alone
C18_OptionsWithoutElection ==
    [MetricsBindAddress     |-> <<":", eventsOpts.MetricsPort>>,
     HealthProbeBindAddress |-> <<":", eventsOpts.HealthPort>>,
     DefaultNamespaces      |-> IF eventsOpts.Namespaced
                                THEN {eventsOpts.ManagedNamespace} ELSE {},
     LeaderElection         |-> FALSE,
     LeaderElectionID       |-> "",
     LeaseDuration          |-> <<>>,
     RenewDeadline          |-> <<>>,
     RetryPeriod            |-> <<>>]

\* C18: with LeaderElection = false, whatever the three duration variables
\* hold, Start is never at a lookupEnvDurationOr call, never ends with the
\* fatal log of the resolver, never leads, and from the Options statement
\* on its manager options are those made of eventsOpts alone, with no
\* leader election, no election id and no duration.
C18_DurationsNotConsulted ==
    ~eventsOpts.LeaderElection =>
        /\ pc \notin DurationSteps
        /\ fatalMsg.msg # "parsing %s duration"
        /\ fatalMsg.with \notin DurationKeys
        /\ ~leading
        /\ opts \in {NoOptions, C18_OptionsWithoutElection}
        /\ Past("Options") => opts = C18_OptionsWithoutElection

C18_Witness ==
    /\ ~eventsOpts.LeaderElection
    /\ env[LeaseDurationKey] = Set(<<"5", "x">>)
    /\ env[RenewDeadlineKey] = Set(<<"1", "5">>)
    /\ env[RetryPeriodKey] = Set(<<"1", "m">>)
    /\ pc = "run"
    /\ opts.LeaseDuration = <<>>
    /\ opts.RetryPeriod = <<>>

C19_Parseable(k) ==
    env[k].found /\ env[k].v # <<>> /\ ~ParseDuration(env[k].v).err

\* the durations the sample values spell
C19_Spelled(v) ==
    CASE v = <<"5", "s">> -> 5 * Second
      [] v = <<"1", "m">> -> 60 * Second
      [] OTHER            -> ParseDuration(v).d

\* what the option of key k holds by the value of the variable k alone
C19_Resolved(k) ==
    IF C19_Parseable(k) THEN <<C19_Spelled(env[k].v)>> ELSE DeclaredFallback(k)

\* C19: a duration variable that holds a non-empty value which parses as a
\* duration never ends the process, and with leader election enabled, once
\* Start is past the statement that resolves it, the option of that key
\* holds the parsed duration; each of the three options is decided by its
\* own variable alone (parsed value or fallback), whatever the other two
\* variables hold, and is not changed by the later statements.
C19_ParsedValueOverrides ==
    /\ [](\A k \in DurationKeys :
            C19_Parseable(k) =>
                /\ fatalMsg.with # k
                /\ (eventsOpts.LeaderElection /\ Past(StepOfKey(k))) =>
                      /\ OptsDuration(k) = <<C19_Spelled(env[k].v)>>
                      /\ OptsDuration(k) = <<ParseDuration(env[k].v).d>>)
    /\ [](\A k \in DurationKeys :
            (eventsOpts.LeaderElection /\ ~Malformed(k) /\ Past(StepOfKey(k))) =>
                OptsDuration(k) = C19_Resolved(k))
    /\ [][\A k \in DurationKeys :
            OptsDuration(k) # <<>> => OptsDuration(k)' = OptsDuration(k)]_vars

C19_Witness ==
    /\ pc = "run"
    /\ eventsOpts.LeaderElection
    /\ env[LeaseDurationKey] = Set(<<"5", "s">>)
    /\ env[RenewDeadlineKey] = Unset
    /\ env[RetryPeriodKey] = Set(<<"1", "m">>)
    /\ opts.LeaseDuration = <<5 * Second>>
    /\ opts.RenewDeadline = <<10 * Second>>
    /\ opts.RetryPeriod = <<60 * Second>>

\* C20: when ARGO_EVENTS_IMAGE is set to the empty string, Start does not
\* end with the fatal log of the image lookup, imageName is the empty
\* string from the lookup on, and the reconcilers of the EventSource and
\* the Sensor controller, the two that are given imageName, are built with
\* the empty string.
C20_EmptyImageAccepted ==
    /\ \A c \in controllers :
          c.withImage <=> c.name \in {EventSourceController, SensorController}
    /\ env[imageEnvVar] = Set(<<>>) =>
          /\ fatalMsg.msg # "required environment variable '%s' not defined"
          /\ imageName = <<>>
          /\ \A c \in controllers : c.withImage => c.image = <<>>
    /\ env[imageEnvVar].found =>
          \A c \in controllers : c.withImage => c.image = env[imageEnvVar].v

C20_Witness ==
    /\ env[imageEnvVar] = Set(<<>>)
    /\ pc = "run"
    /\ exitCode = "none"
    /\ [name |-> EventSourceController, withImage |-> TRUE, image |-> <<>>] \in controllers
    /\ [name |-> SensorController, withImage |-> TRUE, image |-> <<>>] \in controllers

=============================================================================
